---- MODULE Spec2Model ----
(***************************************************************************)
(* A model of the bia_explorer client library: the cursor-paginated        *)
(* streams of ApiClient, the by-name / by-accession / by-alias lookups,    *)
(* the slice resolver, the array materializer, the display formatter of    *)
(* BIAImageRepresentation, and the HTTP loaders of biostudies.py / io.py.  *)
(*                                                                         *)
(* A paginated stream is a Python generator: it is modelled step by step   *)
(* (one page fetch, one yield).  Every other operation is a synchronous    *)
(* call and is modelled as one action that draws its inputs and the        *)
(* answers of the remote services and records the call's outcome in        *)
(* `call`.                                                                 *)
(***************************************************************************)
EXTENDS Integers, Sequences, FiniteSets, TLC

\* ------------------------------------------------------------------ bounds
\* Largest record identifier the search service holds.
MaxId == 4
\* Largest page size (ApiClient.batch_size) tried.
MaxBatch == 3
\* Largest number of axes in front of the image plane of a stored array.
MaxLead == 3

\* --------------------------------------------------------------- optionals
\* Python's None and a present value v.
None == <<>>
Some(v) == <<v>>

Min(a, b) == IF a <= b THEN a ELSE b
Last(s) == s[Len(s)]

VARIABLES
    pc,            \* position of the running generator
    stream,        \* the ApiClient stream method the generator was made by
    records,       \* identifiers of the records matching the query, in service order
    batch_size,    \* ApiClient.batch_size
    start_uuid,    \* the cursor: last_study_uuid / <filter>.start_uuid
    fetched,       \* the page being iterated: images_fetched / filerefs_fetched
    idx,           \* index in `fetched` of the next record to yield
    fetched_any,   \* all_studies' loop flag
    yielded,       \* what the consumer has received so far, in order
    fetch_log,     \* every page fetch issued: its start cursor, limit and outcome
    call           \* the last synchronous call: its inputs and its outcome

vars == <<pc, stream, records, batch_size, start_uuid, fetched, idx,
          fetched_any, yielded, fetch_log, call>>

streamVars == <<pc, stream, records, batch_size, start_uuid, fetched, idx,
                fetched_any, yielded, fetch_log>>

\* ----------------------------------------------------------- search service
\* The sets of records a query can match: identifiers are unique and the
\* service lists them in increasing order.
RECURSIVE SortedSeq(_)
SortedSeq(S) ==
    IF S = {} THEN <<>>
    ELSE LET m == CHOOSE x \in S : \A y \in S : x <= y
         IN  <<m>> \o SortedSeq(S \ {m})

RecordLists == { SortedSeq(S) : S \in SUBSET (1..MaxId) }

\* One page: at most `limit` records, those strictly after the cursor.
search_exact_match(recs, start, limit) ==
    LET after == SelectSeq(recs, LAMBDA u : start = None \/ u > start[1])
    IN  SubSeq(after, 1, Min(limit, Len(after)))

\* ------------------------------------------------------------ the streams
PagedStreams == {"get_study_images", "get_study_file_references",
                 "get_study_images_with_representation"}
Streams == {"all_studies"} \cup PagedStreams

\* What a stream hands to its consumer for a raw record.
BIAImage(uuid) == [uuid |-> uuid, kind |-> "BIAImage"]
FileReference(uuid) == [uuid |-> uuid, kind |-> "FileReference"]
RawRecord(uuid) == [uuid |-> uuid, kind |-> "raw"]

Wrap(s, uuid) ==
    CASE s = "get_study_images" -> BIAImage(uuid)
      [] s = "get_study_file_references" -> FileReference(uuid)
      [] s = "get_study_images_with_representation" -> BIAImage(uuid)
      [] OTHER -> RawRecord(uuid)

NoCall == [op |-> "none"]

Init ==
    /\ pc = "idle"
    /\ stream = "none"
    /\ records = <<>>
    /\ batch_size = 1
    /\ start_uuid = None
    /\ fetched = <<>>
    /\ idx = 1
    /\ fetched_any = FALSE
    /\ yielded = <<>>
    /\ fetch_log = <<>>
    /\ call = NoCall

\* Nothing is running: the client is free to begin an operation.
Idle == pc = "idle" /\ call = NoCall

\* Calling a stream method makes a fresh generator; nothing runs yet.
NewGenerator(s) ==
    /\ Idle
    /\ \E recs \in RecordLists, P \in 1..MaxBatch :
          /\ records' = recs
          /\ batch_size' = P
    /\ stream' = s
    /\ pc' = "start"
    /\ UNCHANGED <<start_uuid, fetched, idx, yielded, fetch_log, call>>
    /\ fetched_any' = TRUE

\* The cursor the next page fetch of a paged stream carries.
NextCursorFirst(page) == Some(page[1])
NextCursor(page) == Some(Last(page))

\* A page fetch that the service answers.
FetchOk(cursor) ==
    LET page == search_exact_match(records, cursor, batch_size)
    IN  /\ fetched' = page
        /\ idx' = 1
        /\ fetch_log' = Append(fetch_log,
                               [start |-> cursor, limit |-> batch_size, ok |-> TRUE])
        /\ pc' = IF Len(page) = 0 THEN "done" ELSE "for"

FetchFailRetry(cursor) ==
    /\ fetch_log' = Append(fetch_log,
                           [start |-> cursor, limit |-> batch_size, ok |-> FALSE])
    /\ UNCHANGED <<pc, fetched, idx>>

\* A page fetch that raises (transport error): the exception is not caught,
\* so it leaves the generator, which is finished from then on.
FetchFail(cursor) ==
    /\ fetch_log' = Append(fetch_log,
                           [start |-> cursor, limit |-> batch_size, ok |-> FALSE])
    /\ pc' = "failed"
    /\ UNCHANGED <<fetched, idx>>

\* all_studies: the page fetch at the head of the while loop.
all_studies_fetch ==
    /\ stream = "all_studies"
    /\ \/ pc = "start"
       \/ pc = "for" /\ idx > Len(fetched)
    /\ fetched_any
    /\ fetched_any' = FALSE
    /\ \/ FetchOk(start_uuid)
       \/ FetchFail(start_uuid)
    /\ UNCHANGED <<stream, records, batch_size, start_uuid, yielded, call>>

\* all_studies: one turn of the for loop.
all_studies_yield ==
    /\ stream = "all_studies"
    /\ pc = "for"
    /\ idx <= Len(fetched)
    /\ fetched_any' = TRUE
    /\ start_uuid' = Some(fetched[idx])
    /\ yielded' = Append(yielded, Wrap(stream, fetched[idx]))
    /\ idx' = idx + 1
    /\ UNCHANGED <<pc, stream, records, batch_size, fetched, fetch_log, call>>

\* The three filtered streams: the fetch before the while loop.
paged_first_fetch ==
    /\ stream \in PagedStreams
    /\ pc = "start"
    /\ \/ FetchOk(None)
       \/ FetchFail(None)
    /\ UNCHANGED <<stream, records, batch_size, start_uuid, fetched_any,
                   yielded, call>>

\* The three filtered streams: one turn of the for loop.
paged_yield ==
    /\ stream \in PagedStreams
    /\ pc = "for"
    /\ idx <= Len(fetched)
    /\ yielded' = Append(yielded, Wrap(stream, fetched[idx]))
    /\ idx' = idx + 1
    /\ UNCHANGED <<pc, stream, records, batch_size, start_uuid, fetched,
                   fetched_any, fetch_log, call>>

paged_next_fetch_stale ==
    /\ stream \in PagedStreams
    /\ pc = "for"
    /\ idx > Len(fetched)
    /\ \/ FetchOk(start_uuid)
       \/ FetchFail(start_uuid)
    /\ UNCHANGED <<stream, records, batch_size, start_uuid, fetched_any, yielded, call>>

\* The three filtered streams: the cursor advance and fetch that end a
\* turn of the while loop.
paged_next_fetch ==
    /\ stream \in PagedStreams
    /\ pc = "for"
    /\ idx > Len(fetched)
    /\ start_uuid' = NextCursor(fetched)
    /\ \/ FetchOk(NextCursor(fetched))
       \/ FetchFail(NextCursor(fetched))
    /\ UNCHANGED <<stream, records, batch_size, fetched_any, yielded, call>>


\* ------------------------------------------------------ synchronous calls
\* A synchronous call runs from start to end while nothing else does.
Sync == Idle /\ UNCHANGED streamVars

\* The caller is done with a result, or with a generator that has ended,
\* and drops it.
Drop ==
    /\ \/ pc \in {"done", "failed"}
       \/ call # NoCall
    /\ pc' = "idle"
    /\ stream' = "none"
    /\ records' = <<>>
    /\ batch_size' = 1
    /\ start_uuid' = None
    /\ fetched' = <<>>
    /\ idx' = 1
    /\ fetched_any' = FALSE
    /\ yielded' = <<>>
    /\ fetch_log' = <<>>
    /\ call' = NoCall

\* Python truthiness of an optional integer: `not v`.
Falsy(v) == v = None \/ v[1] = 0

\* An exception, with the parts its message is formatted from.
Raise(type, msg) == [kind |-> "error", type |-> type, msg |-> msg]
\* The parts of a message: literal text, and the values formatted into it.
Text(t) == [text |-> t]
Tag(t) == [tag |-> t]
Shape(sh) == [shape |-> sh]
Names(outcome, part) == \E i \in 1..Len(outcome.msg) : outcome.msg[i] = part

\* ---------------------------------------------------------- slice resolver
IndexVals == {0, 1}
OptIndex == {None} \cup { Some(i) : i \in IndexVals }
ImageSlices == [c : OptIndex, x : OptIndex, y : OptIndex, z : OptIndex, t : OptIndex]
ImageSlice(c, x, y, z, t) == [c |-> c, x |-> x, y |-> y, z |-> z, t |-> t]

as_tuple_xyz(s) == <<s.x, s.y, s.z>>
as_tuple(s) == <<s.c, s.z, s.t>>

\* -------------------------------------------------------- array materializer
OME_NGFF == "ome_ngff"
OME_ZARR_ZIPPED == "zipped_zarr"
\* The two tags of ImageRepresentationType and a tag outside it.
RepTypes == {OME_NGFF, OME_ZARR_ZIPPED, "tiff"}
Uri == "uri0"

max_dimension_size == 5000

\* The arrays a store can hold under group "0": up to MaxLead axes in front
\* of one or two plane axes.
LeadDims == {1, 2}
PlaneDims == {1, 4000, max_dimension_size, max_dimension_size + 1}
SeqsUpTo(S, n) == UNION { [1..k -> S] : k \in 0..n }
ArrayShapes ==
    { lead \o plane : lead \in SeqsUpTo(LeadDims, MaxLead),
                      plane \in ([1..1 -> PlaneDims] \cup [1..2 -> PlaneDims]) }
\* What zarr.open finds at the uri: nothing readable, or an array.
Stores == {[ok |-> FALSE]} \cup { [ok |-> TRUE, shape |-> sh] : sh \in ArrayShapes }

\* The result of materialization: the lazy array, or the exception; `opened`
\* tells whether the array store was opened on the way.
ome_ngff_to_dask_array(store) ==
    IF store.ok
    THEN [ok |-> TRUE, opened |-> TRUE, shape |-> store.shape]
    ELSE [ok |-> FALSE, opened |-> TRUE, error |-> Raise("StoreError", <<Text(Uri)>>)]

zipped_zarr_to_dask_array ==
    [ok |-> FALSE, opened |-> FALSE, error |-> Raise("Exception", <<Text("TODO")>>)]

to_dask_array_any_zarr(type, store) ==
    IF type \in {OME_NGFF, OME_ZARR_ZIPPED}
    THEN ome_ngff_to_dask_array(store)
    ELSE [ok |-> FALSE, opened |-> FALSE,
          error |-> Raise("Exception",
                          <<Text("No automatic display supported for representation of type "),
                            Tag(type), Text(" at '"), Text(Uri), Text("'")>>)]

to_dask_array(type, store) ==
    IF type = OME_NGFF THEN ome_ngff_to_dask_array(store)
    ELSE IF type = OME_ZARR_ZIPPED THEN zipped_zarr_to_dask_array
    ELSE [ok |-> FALSE, opened |-> FALSE,
          error |-> Raise("Exception",
                          <<Text("No automatic display supported for representation of type "),
                            Tag(type), Text(" at '"), Text(Uri), Text("'")>>)]

\* ---------------------------------------------------------- display formatter
\* img_as_darray[slice_tuple]: an integer takes one axis away (and must lie
\* within it), a None puts a new axis of length 1 in; the axes left over follow.
RECURSIVE ApplyIndex(_, _)
ApplyIndex(shape, index) ==
    IF index = <<>> THEN [ok |-> TRUE, shape |-> shape]
    ELSE IF Head(index) = None
    THEN LET r == ApplyIndex(shape, Tail(index))
         IN  IF r.ok THEN [ok |-> TRUE, shape |-> <<1>> \o r.shape] ELSE r
    ELSE IF shape = <<>> THEN [ok |-> FALSE]
    ELSE IF Head(index)[1] >= Head(shape) \/ Head(index)[1] < -Head(shape)
    THEN [ok |-> FALSE]
    ELSE ApplyIndex(Tail(shape), Tail(index))

RankOkAtLeast2(shape) == Len(shape) >= 2
RankOk(shape) == Len(shape) = 2

SizeOkFirstAxis(shape) == ~(shape[1] > max_dimension_size)
SizeOk(shape) == ~(shape[1] > max_dimension_size \/ shape[2] > max_dimension_size)

\* Image.resize(size): size is (width, height).
Resize(size) ==
    IF size[1] < 1 \/ size[2] < 1
    THEN [kind |-> "error", type |-> "ValueError", msg |-> <<Text("height and width must be > 0")>>,
          resize_to |-> size]
    ELSE [kind |-> "raster", width |-> size[1], height |-> size[2],
          resized |-> TRUE, resize_to |-> size]

\* The missing target dimension, from the raster img = [width, height].
MissingWDirect(img, img_h) == (img.width * img_h) \div img.height
MissingW(img, img_h) == (img.height * img_h) \div img.width
MissingH(img, img_w) == (img.width * img_w) \div img.height

\* Image.fromarray(slice_to_display, 'L') and the optional resize.
Render(shape, img_h, img_w) ==
    LET img == [width |-> shape[2], height |-> shape[1]]
    IN  IF Falsy(img_h) /\ Falsy(img_w)
        THEN [kind |-> "raster", width |-> img.width, height |-> img.height,
              resized |-> FALSE, resize_to |-> None]
        ELSE LET w == IF Falsy(img_w) THEN MissingW(img, img_h[1]) ELSE img_w[1]
                 h == IF Falsy(img_h) THEN MissingH(img, w) ELSE img_h[1]
             IN  Resize(<<h, w>>)

\* get_slice_image: the locals it computes and its outcome.
get_slice_image(type, store, image_slice, img_h, img_w) ==
    LET sl == IF image_slice = None
              THEN ImageSlice(Some(0), None, None, Some(0), Some(0))
              ELSE image_slice[1]
        slice_tuple == as_tuple(sl)
        img_as_darray == to_dask_array(type, store)
        sliced == ApplyIndex(img_as_darray.shape, slice_tuple)
    IN  IF ~img_as_darray.ok
        THEN [slice_tuple |-> slice_tuple, opened |-> img_as_darray.opened,
              shape |-> None, outcome |-> img_as_darray.error]
        ELSE IF ~sliced.ok
        THEN [slice_tuple |-> slice_tuple, opened |-> TRUE, shape |-> None,
              outcome |-> Raise("IndexError", <<>>)]
        ELSE IF ~RankOk(sliced.shape)
        THEN [slice_tuple |-> slice_tuple, opened |-> TRUE, shape |-> Some(sliced.shape),
              outcome |-> Raise("Exception",
                                <<Text("Unable to display slice of shape "),
                                  Shape(sliced.shape), Text(". xy plane required")>>)]
        ELSE IF ~SizeOk(sliced.shape)
        THEN [slice_tuple |-> slice_tuple, opened |-> TRUE, shape |-> Some(sliced.shape),
              outcome |-> Raise("Exception",
                                <<Text("Trying to display a "), Shape(sliced.shape),
                                  Text(" plane. Consider manual data manipulation and rendering for planes larger than "),
                                  Shape(<<max_dimension_size, max_dimension_size>>)>>)]
        ELSE [slice_tuple |-> slice_tuple, opened |-> TRUE, shape |-> Some(sliced.shape),
              outcome |-> Render(sliced.shape, img_h, img_w)]

\* The arguments tried.
SliceArgs == {None} \cup { Some(ImageSlice(c, None, None, z, t)) :
                           c \in OptIndex, z \in OptIndex, t \in OptIndex }
TargetSizes == {None, Some(0), Some(256)}

as_tuple_call ==
    /\ Sync
    /\ \E s \in ImageSlices :
          call' = [op |-> "as_tuple", image_slice |-> s, result |-> as_tuple(s)]

to_dask_array_call ==
    /\ Sync
    /\ \E type \in RepTypes, store \in Stores :
          call' = [op |-> "to_dask_array", type |-> type, store |-> store,
                   result |-> to_dask_array(type, store)]

get_slice_image_call ==
    /\ Sync
    /\ \E type \in RepTypes, store \in Stores, image_slice \in SliceArgs,
          img_h \in TargetSizes, img_w \in TargetSizes :
          call' = [op |-> "get_slice_image", type |-> type, store |-> store,
                   image_slice |-> image_slice, img_h |-> img_h, img_w |-> img_w,
                   result |-> get_slice_image(type, store, image_slice, img_h, img_w)]

\* ----------------------------------------------------------------- lookups
\* What a lookup gives back: nothing, an entity, or an exception.
Nothing == [kind |-> "none"]
Entity(cls, uuid) == [kind |-> "entity", cls |-> cls, uuid |-> uuid]

\* The answer of the search service to a lookup: a transport failure, or
\* the list of matches.
Answers == {[ok |-> FALSE]} \cup { [ok |-> TRUE, matches |-> m] : m \in RecordLists }
TransportError == Raise("ApiException", <<>>)

get_collection_first(matches) ==
    IF Len(matches) = 0 THEN Nothing
    ELSE Entity("BIACollection", matches[1])

get_collection(matches) ==
    IF Len(matches) = 0 THEN Nothing
    ELSE IF Len(matches) = 1 THEN Entity("BIACollection", matches[1])
    ELSE Raise("Exception", <<Text("Unexpected multiple collections with the same name")>>)

study_by_accession_strict(matches) ==
    LET results == search_exact_match(matches, None, 1)
    IN  IF Len(results) = 1 THEN Entity("BIAStudy", results[1])
        ELSE Raise("Exception", <<Text("not found")>>)

\* The filter carries limit=1: the service answers with at most one study.
study_by_accession(matches) ==
    LET results == search_exact_match(matches, None, 1)
    IN  IF Len(results) # 0 THEN Entity("BIAStudy", results[1])
        ELSE Nothing

get_study_image_by_alias(images) ==
    IF Len(images) # 0 THEN Entity("BIAImage", images[1])
    ELSE Nothing

Lookup(op, answer) ==
    IF ~answer.ok THEN TransportError
    ELSE CASE op = "get_collection" -> get_collection(answer.matches)
           [] op = "study_by_accession" -> study_by_accession(answer.matches)
           [] op = "get_study_image_by_alias" -> get_study_image_by_alias(answer.matches)

LookupCall(op) ==
    /\ Sync
    /\ \E answer \in Answers :
          call' = [op |-> op, answer |-> answer, result |-> Lookup(op, answer)]

get_collection_call == LookupCall("get_collection")
study_by_accession_call == LookupCall("study_by_accession")
get_study_image_by_alias_call == LookupCall("get_study_image_by_alias")

\* -------------------------------------------------------------- HTTP loaders
HTTP_OK == 200
Statuses == {HTTP_OK, 404, 500}
\* A response: its status, whether it carries a Content-length header and
\* the length it states, and whether its body parses as the document asked for.
Responses == [status : Statuses, has_length : BOOLEAN, length : {50, 200},
              body_valid : BOOLEAN]

\* The outcome of parsing / decoding a response body.
ParseBody(r) ==
    IF r.body_valid THEN [kind |-> "value", parsed |-> TRUE]
    ELSE [kind |-> "error", type |-> "ValidationError", parsed |-> TRUE]
AssertionFailed == [kind |-> "error", type |-> "AssertionError", parsed |-> FALSE]

load_submission(r) ==
    IF r.status # HTTP_OK THEN AssertionFailed ELSE ParseBody(r)

flist_from_flist_fname(r) ==
    IF r.status # HTTP_OK THEN AssertionFailed ELSE ParseBody(r)

load_pil_image_from_uri(r) ==
    IF r.status # HTTP_OK THEN AssertionFailed ELSE ParseBody(r)

\* No status check: the body is parsed whatever the status.
load_full_bia_study(r) == ParseBody(r)

\* to_bytesio: `head` answers the size request, `data` the data request
\* (made only when the size check passes).
to_bytesio(head, data, max_size_bytes) ==
    IF ~head.has_length
    THEN [kind |-> "error", type |-> "KeyError", parsed |-> FALSE, requests |-> 1]
    ELSE IF ~Falsy(max_size_bytes) /\ head.length > max_size_bytes[1]
    THEN [kind |-> "error", type |-> "Exception", parsed |-> FALSE, requests |-> 1]
    ELSE IF data.status # HTTP_OK
    THEN [kind |-> "error", type |-> "AssertionError", parsed |-> FALSE, requests |-> 2]
    ELSE [kind |-> "value", parsed |-> TRUE, requests |-> 2]

HttpGet(op, r) ==
    CASE op = "load_submission" -> load_submission(r)
      [] op = "flist_from_flist_fname" -> flist_from_flist_fname(r)
      [] op = "load_pil_image_from_uri" -> load_pil_image_from_uri(r)
      [] op = "load_full_bia_study" -> load_full_bia_study(r)

HttpCall(op) ==
    /\ Sync
    /\ \E r \in Responses :
          call' = [op |-> op, responses |-> <<r>>, result |-> HttpGet(op, r)]

load_submission_call == HttpCall("load_submission")
flist_from_flist_fname_call == HttpCall("flist_from_flist_fname")
load_pil_image_from_uri_call == HttpCall("load_pil_image_from_uri")
load_full_bia_study_call == HttpCall("load_full_bia_study")

MaxSizes == {None, Some(100)}

to_bytesio_call ==
    /\ Sync
    /\ \E head \in Responses, data \in Responses, max_size_bytes \in MaxSizes :
          LET result == to_bytesio(head, data, max_size_bytes)
          IN  call' = [op |-> "to_bytesio", max_size_bytes |-> max_size_bytes,
                       responses |-> IF result.requests = 1 THEN <<head>>
                                     ELSE <<head, data>>,
                       result |-> result]

all_studies == NewGenerator("all_studies")
get_study_images == NewGenerator("get_study_images")
get_study_file_references == NewGenerator("get_study_file_references")
get_study_images_with_representation ==
    NewGenerator("get_study_images_with_representation")

Next ==
    \/ all_studies
    \/ get_study_images
    \/ get_study_file_references
    \/ get_study_images_with_representation
    \/ all_studies_fetch
    \/ all_studies_yield
    \/ paged_first_fetch
    \/ paged_yield
    \/ paged_next_fetch
    \/ as_tuple_call
    \/ to_dask_array_call
    \/ get_slice_image_call
    \/ get_collection_call
    \/ study_by_accession_call
    \/ get_study_image_by_alias_call
    \/ load_submission_call
    \/ flist_from_flist_fname_call
    \/ load_pil_image_from_uri_call
    \/ load_full_bia_study_call
    \/ to_bytesio_call
    \/ Drop

Spec == Init /\ [][Next]_vars

\* ------------------------------------------------------- paginator claims
Ceil(n, d) == (n + d - 1) \div d
YieldedIds == [i \in 1..Len(yielded) |-> yielded[i].uuid]
IsPrefix(a, b) == Len(a) <= Len(b) /\ SubSeq(b, 1, Len(a)) = a
PagesNeeded == Ceil(Len(records), batch_size) + 1
LastFetchFailed == fetch_log # <<>> /\ ~Last(fetch_log).ok

\* C1: for every page size P >= 1 and record count N, each of the four
\* streams hands over the records in service order without duplicate or gap
\* (what was yielded is always a prefix of the service's list), never issues
\* more than ceil(N/P)+1 page fetches, and when it ends normally it has
\* yielded all N records after exactly ceil(N/P)+1 fetches (1 when N = 0).
C1_ExactlyOnceAndFetchCount ==
    stream \in Streams =>
        /\ IsPrefix(YieldedIds, records)
        /\ Len(fetch_log) <= PagesNeeded
        /\ pc = "done" =>
              /\ YieldedIds = records
              /\ Len(fetch_log) = PagesNeeded
              /\ Len(records) = 0 => Len(fetch_log) = 1

C1_Witness ==
    /\ pc = "done"
    /\ stream = "get_study_file_references"
    /\ Len(records) = 3
    /\ batch_size = 2
    /\ Len(yielded) = 3
    /\ Len(fetch_log) = 3

\* C2: a failed page fetch aborts the stream: the generator is dead as soon
\* as the last fetch issued has failed, and from then on it issues no fetch
\* and yields no record; the step that fails leaves the records already
\* yielded as they are.
C2_FailureAborts ==
    /\ [](LastFetchFailed => pc = "failed")
    /\ [][LastFetchFailed =>
             /\ ~(Len(fetch_log') > Len(fetch_log))
             /\ ~(Len(yielded') > Len(yielded))]_vars
    /\ [][(~LastFetchFailed /\ LastFetchFailed') =>
             (yielded' = yielded /\ Len(fetch_log') = Len(fetch_log) + 1)]_vars

C2_Witness ==
    /\ pc = "failed"
    /\ LastFetchFailed
    /\ Len(fetch_log) = 2
    /\ Len(yielded) = 2
    /\ Len(records) > 2

\* ------------------------------------------- materializer / display claims
Materializes == call.op \in {"to_dask_array", "get_slice_image"}
MatFailed ==
    IF call.op = "to_dask_array" THEN ~call.result.ok
    ELSE call.result.outcome.kind = "error"
MatError ==
    IF call.op = "to_dask_array" THEN call.result.error ELSE call.result.outcome

\* C3 as stated: for every format tag other than "ome_ngff" (the
\* not-yet-implemented "zipped_zarr" and any unrecognized tag alike)
\* to_dask_array fails without opening an array store and its error names
\* the offending tag.
C3_UnsupportedNamesTag ==
    (Materializes /\ call.type # "ome_ngff") =>
        /\ MatFailed
        /\ ~call.result.opened
        /\ Names(MatError, Tag(call.type))

\* C3 amended: for every format tag other than "ome_ngff" to_dask_array
\* fails without opening an array store; the error names the offending tag
\* when the tag is unrecognized, and is the fixed message "TODO", naming no
\* tag, when the tag is "zipped_zarr".
C3_UnsupportedFails ==
    (Materializes /\ call.type # "ome_ngff") =>
        /\ MatFailed
        /\ ~call.result.opened
        /\ call.type # "zipped_zarr" => Names(MatError, Tag(call.type))
        /\ call.type = "zipped_zarr" =>
              (MatError.msg = <<Text("TODO")>> /\ ~Names(MatError, Tag(call.type)))

C3_Witness ==
    /\ call.op = "to_dask_array"
    /\ call.type = "zipped_zarr"
    /\ call.store.ok
    /\ ~call.result.ok
    /\ ~call.result.opened

Sliced == call.op = "get_slice_image" /\ call.result.shape # None
SlicedShape == call.result.shape[1]
Outcome == call.result.outcome

\* C4: in get_slice_image, whenever the array obtained by applying the
\* resolved slice tuple has a rank other than 2, the call raises an error
\* naming that shape and returns no raster, whatever img_h and img_w are.
C4_RankNot2Fails ==
    (Sliced /\ Len(SlicedShape) # 2) =>
        /\ Outcome.kind = "error"
        /\ Names(Outcome, Shape(SlicedShape))

C4_Witness ==
    /\ Sliced
    /\ Len(SlicedShape) = 3
    /\ call.img_h = Some(256)
    /\ call.img_w = Some(256)
    /\ Outcome.kind = "error"

SizeError ==
    /\ Outcome.kind = "error"
    /\ Outcome.type = "Exception"
    /\ Outcome.msg[1] = Text("Trying to display a ")

\* C5: a rank-2 slice of shape (h, w) passes the size check exactly when
\* h <= 5000 and w <= 5000; a plane with a dimension above 5000 raises an
\* error naming the shape and the limit and returns no raster; planes whose
\* dimensions are 4000 or 5000 are rendered.
C5_SizeLimit ==
    (Sliced /\ Len(SlicedShape) = 2) =>
        LET h == SlicedShape[1]
            w == SlicedShape[2]
        IN  /\ (h <= 5000 /\ w <= 5000) <=> ~SizeError
            /\ SizeError => (Names(Outcome, Shape(SlicedShape)) /\ Names(Outcome, Shape(<<5000, 5000>>)))
            /\ (h > 5000 \/ w > 5000) => Outcome.kind = "error"
            /\ ({h, w} \subseteq {4000, 5000}) => Outcome.kind = "raster"

C5_Witness ==
    /\ Sliced
    /\ SlicedShape = <<5000, 4000>>
    /\ Outcome.kind = "raster"

\* C6: when exactly one target dimension is given, the size handed to the
\* resize is in the plane's width:height ratio up to the floor of the one
\* integer division that computes the missing dimension (rh = floor(H*rw/W),
\* that is rh*W <= H*rw < (rh+1)*W, when the width is the one missing from
\* the call; rw = floor(W*rh/H) when the height is), and the raster returned
\* has that size.
C6_AspectRatio ==
    (/\ Sliced
     /\ Len(SlicedShape) = 2
     /\ ~SizeError
     /\ Falsy(call.img_h) # Falsy(call.img_w)) =>
        LET H == SlicedShape[1]
            W == SlicedShape[2]
            rw == Outcome.resize_to[1]
            rh == Outcome.resize_to[2]
        IN  /\ Outcome.resize_to # None
            /\ Falsy(call.img_w) => rh = (H * rw) \div W
            /\ Falsy(call.img_h) => rw = (W * rh) \div H
            /\ Outcome.kind = "raster" => (Outcome.width = rw /\ Outcome.height = rh)

C6_Witness ==
    /\ Sliced
    /\ SlicedShape = <<4000, 5000>>
    /\ call.img_h = Some(256)
    /\ call.img_w = None
    /\ Outcome.kind = "raster"
    /\ Outcome.width = 256
    /\ Outcome.height = 204

\* C9: as_tuple returns the 3-tuple (c, z, t) in that order, whatever x and
\* y are, and (None, None, None) for a slice with every field unset.
C9_AsTuple ==
    call.op = "as_tuple" =>
        LET s == call.image_slice
        IN  /\ call.result = <<s.c, s.z, s.t>>
            /\ \A x \in OptIndex, y \in OptIndex :
                  as_tuple([s EXCEPT !.x = x, !.y = y]) = call.result
            /\ (s = ImageSlice(None, None, None, None, None))
                  => call.result = <<None, None, None>>

C9_Witness ==
    /\ call.op = "as_tuple"
    /\ call.image_slice = ImageSlice(None, Some(1), Some(0), Some(1), Some(0))
    /\ call.result = <<None, Some(1), Some(0)>>

\* ------------------------------------------------------------ lookup claims
LookupOps == {"study_by_accession", "get_collection", "get_study_image_by_alias"}
Answered == call.op \in LookupOps /\ call.answer.ok

\* C7: a lookup the service answers with zero matches returns None and
\* raises nothing, for study_by_accession, get_collection and
\* get_study_image_by_alias alike.
C7_NotFoundIsNone ==
    (Answered /\ Len(call.answer.matches) = 0) => call.result = [kind |-> "none"]

C7_Witness ==
    /\ call.op = "get_collection"
    /\ call.answer.ok
    /\ call.answer.matches = <<>>
    /\ call.result.kind = "none"

\* C8: get_collection raises the ambiguity error whenever the service
\* answers with two or more matches, and returns a collection only when it
\* answers with exactly one match: that match, as a BIACollection.
C8_AmbiguousIsError ==
    (call.op = "get_collection" /\ call.answer.ok) =>
        LET m == call.answer.matches
        IN  /\ Len(m) >= 2 =>
                 (/\ call.result.kind = "error"
                  /\ Names(call.result,
                           Text("Unexpected multiple collections with the same name")))
            /\ call.result.kind = "entity" =>
                 (/\ Len(m) = 1
                  /\ call.result.uuid = m[1]
                  /\ call.result.cls = "BIACollection")
            /\ Len(m) = 1 => call.result.kind = "entity"

C8_Witness ==
    /\ call.op = "get_collection"
    /\ call.answer.ok
    /\ Len(call.answer.matches) = 2
    /\ call.result.kind = "error"

\* -------------------------------------------------------------- HTTP claims
HttpOps == {"load_submission", "flist_from_flist_fname", "load_pil_image_from_uri",
            "load_full_bia_study", "to_bytesio"}

\* C10: every operation that issues an HTTP GET fails with a hard error
\* when a response it received has a status other than success, and then
\* never parses or returns the response body.
C10_NonSuccessIsError ==
    (/\ call.op \in HttpOps
     /\ \E i \in 1..Len(call.responses) : call.responses[i].status # 200) =>
        /\ call.result.kind = "error"
        /\ ~call.result.parsed

\* ------------------------------------------------------ entity adapter claims
\* The domain entity each stream is declared to yield.
EntityClass(s) ==
    CASE s = "all_studies" -> "BIAStudy"
      [] s = "get_study_images" -> "BIAImage"
      [] s = "get_study_file_references" -> "FileReference"
      [] s = "get_study_images_with_representation" -> "BIAImage"

\* C11: every record a stream yields is the domain entity wrapping the raw
\* search record, never the raw record itself: BIAStudy from all_studies
\* (and so from BIAStudy.get_all, which hands on what all_studies yields),
\* BIAImage from get_study_images, FileReference from
\* get_study_file_references.
C11_YieldsEntities ==
    stream \in Streams =>
        \A i \in 1..Len(yielded) :
            /\ yielded[i].kind # "raw"
            /\ yielded[i].kind = EntityClass(stream)

\* ------------------------------------------------------------ cursor claims
\* C12: the first page fetch of a stream carries no start cursor; every
\* later one is issued only after an answered, non-empty page whose records
\* have all been yielded, and carries the identifier of that page's last
\* record, which is the last record yielded so far; a fetch yields nothing
\* itself; an answered empty page ends the stream, and no fetch follows it.
C12_CursorDiscipline ==
    /\ []((fetch_log # <<>> /\ Last(fetch_log).ok /\ fetched = <<>>) => pc = "done")
    /\ [][Len(fetch_log') > Len(fetch_log) =>
             /\ Len(fetch_log') = Len(fetch_log) + 1
             /\ yielded' = yielded
             /\ IF fetch_log = <<>>
                THEN /\ Last(fetch_log').start = None
                     /\ yielded = <<>>
                ELSE /\ Last(fetch_log).ok
                     /\ fetched # <<>>
                     /\ Len(yielded) >= Len(fetched)
                     /\ SubSeq(YieldedIds, Len(yielded) - Len(fetched) + 1,
                               Len(yielded)) = fetched
                     /\ Last(fetch_log').start = Some(Last(fetched))
                     /\ Last(fetch_log').start = Some(Last(yielded).uuid)]_vars

C12_Witness ==
    /\ stream = "get_study_images_with_representation"
    /\ batch_size = 2
    /\ records = <<1, 3, 4>>
    /\ Len(fetch_log) = 3
    /\ fetch_log[1].start = None
    /\ fetch_log[2].start = Some(3)
    /\ fetch_log[3].start = Some(4)
    /\ pc = "done"

\* ------------------------------------------------------------ resize claims
\* C13: the raster get_slice_image returns for a valid plane has the
\* requested size: its height is img_h when img_h is given, its width is
\* img_w when img_w is given, and it is the unresized plane (the plane's
\* width and height) when neither is given.
C13_RequestedSize ==
    (Sliced /\ Outcome.kind = "raster") =>
        /\ ~Falsy(call.img_h) => Outcome.height = call.img_h[1]
        /\ ~Falsy(call.img_w) => Outcome.width = call.img_w[1]
        /\ (Falsy(call.img_h) /\ Falsy(call.img_w)) =>
              (/\ ~Outcome.resized
               /\ Outcome.width = SlicedShape[2]
               /\ Outcome.height = SlicedShape[1])

====
